---- MODULE Spec2Model ----
(***************************************************************************)
(* Model of the MCP23x17 GPIO expander driver (src/src/lib.rs).            *)
(*                                                                         *)
(* The driver owns a bus transport (i2c) and the active port.  Every       *)
(* public get/set operation is one action: it computes the register        *)
(* address for the active port and performs one blocking bus transaction.  *)
(* The transport is the driver's type parameter; three transports are      *)
(* modelled: one whose transactions succeed or fail and read back any      *)
(* byte ("any"), a register file ("memory"), and the chip's interrupt      *)
(* latch behaviour as the driver's documentation states it ("mcp23x17").   *)
(***************************************************************************)
EXTENDS Integers, Sequences, FiniteSets

VARIABLES
    active_port,  \* Mcp23x17.active_port: "A" or "B"
    i2c,          \* Mcp23x17.i2c: the state of the transport the driver owns
    bus,          \* the transactions the most recent call issued, in order
    ret,          \* the value the most recent call returned
    call,         \* the most recent call (or pin change): who, which operation, arguments
    selected,     \* per calling context: the port it last passed to select_port
    last_sel,     \* the most recent select_port call: its caller and its argument
    written,      \* per port: the value last set with set_direction ("memory" transport)
    event         \* the last thing that touched the interrupt latch ("mcp23x17" transport)

vars == <<active_port, i2c, bus, ret, call, selected, last_sel, written, event>>

----------------------------------------------------------------------------
(* Program constants *)

REG_IODIR == 0
REG_IPOL == 1
REG_GPINTEN == 2
REG_DEFVAL == 3
REG_INTCON == 4
REG_CONFIG == 5
REG_GPPU == 6
REG_INTF == 7
REG_INTCAP == 8
REG_GPIO == 9
REG_OLAT == 10

ADDRESS == 32

Config_BANK == 128

PORT_B_BIT == 16

Registers == REG_IODIR .. REG_OLAT

Port == {"A", "B"}

----------------------------------------------------------------------------
(* Bounds and input sets *)

NumCtx == 2

Ctx == 1 .. NumCtx

U8 == 0 .. 255

\* the bytes the callers pass and the "any" transport reads back
Bytes == {0, 15, 127, 128, 255}

\* the transport's error values (the driver's type parameter E)
Errors == {"NACK", "TIMEOUT"}

Faults == {"ok"} \cup Errors

----------------------------------------------------------------------------
(* u8 bit operations *)

RECURSIVE BitAndN(_, _, _)
BitAndN(a, b, n) ==
    IF n = 0 THEN 0
    ELSE (IF a % 2 = 1 /\ b % 2 = 1 THEN 1 ELSE 0) + 2 * BitAndN(a \div 2, b \div 2, n - 1)

RECURSIVE BitOrN(_, _, _)
BitOrN(a, b, n) ==
    IF n = 0 THEN 0
    ELSE (IF a % 2 = 1 \/ b % 2 = 1 THEN 1 ELSE 0) + 2 * BitOrN(a \div 2, b \div 2, n - 1)

RECURSIVE BitXorN(_, _, _)
BitXorN(a, b, n) ==
    IF n = 0 THEN 0
    ELSE (IF a % 2 # b % 2 THEN 1 ELSE 0) + 2 * BitXorN(a \div 2, b \div 2, n - 1)

BitAnd(a, b) == BitAndN(a, b, 8)

BitOr(a, b) == BitOrN(a, b, 8)

BitXor(a, b) == BitXorN(a, b, 8)

BitNot(a) == 255 - a

----------------------------------------------------------------------------
(* Results *)

Ok(v) == [ok |-> TRUE, val |-> v]

Err(e) == [ok |-> FALSE, val |-> e]

Unit == <<>>

----------------------------------------------------------------------------
(* The transport: blocking write and write-then-read.                      *)
(* Each returns the transaction's result and the transport's next state.   *)

\* the physical address of register offset reg of port p in the chip
ChipAddr(p, reg) ==
    (IF p = "B" THEN 16 ELSE 0) + reg

\* the offset and the port of a physical address
ChipReg(a) == a % 16

ChipPort(a) == IF (a \div 16) % 2 = 1 THEN "B" ELSE "A"

\* the registers the chip does not let the bus write (INTF: "Not settable")
ReadOnly == {REG_INTF, REG_INTCAP}

\* the registers whose read resets the interrupt flags of their port
ClearsOnRead == {REG_INTCAP, REG_GPIO}

\* the transport's state after a successful write of bytes = <<reg, data>>
WriteEffect(t, bytes) ==
    CASE t.kind = "any" -> t
      [] t.kind = "memory" -> [t EXCEPT !.regs[bytes[1]] = bytes[2]]
      [] t.kind = "mcp23x17" ->
            IF ChipReg(bytes[1]) \in ReadOnly THEN t
            ELSE [t EXCEPT !.regs[bytes[1]] = bytes[2]]

\* the byte a successful write-then-read of register reg reads back
ReadValue(t, reg, any) ==
    IF t.kind = "any" THEN any ELSE t.regs[reg]

\* the transport's state after a successful write-then-read of register reg
ReadEffect(t, reg) ==
    IF t.kind = "mcp23x17" /\ ChipReg(reg) \in ClearsOnRead
    THEN [t EXCEPT !.regs[ChipAddr(ChipPort(reg), REG_INTF)] = 0]
    ELSE t

\* the pins that raise an interrupt when port p's pins go from old to level:
\* enabled pins that changed (control bit 0) or differ from the compare value
\* (control bit 1)
Cause(t, p, old, level) ==
    LET en == t.regs[ChipAddr(p, REG_GPINTEN)]
        con == t.regs[ChipAddr(p, REG_INTCON)]
        def == t.regs[ChipAddr(p, REG_DEFVAL)]
    IN  BitAnd(en, BitOr(BitAnd(BitNot(con), BitXor(old, level)),
                         BitAnd(con, BitXor(level, def))))

\* the chip after port p's pins take the levels level: an interrupt is latched
\* (flags and captured value) unless one is already pending
PinEffect(t, p, level) ==
    LET old == t.regs[ChipAddr(p, REG_GPIO)]
        cause == Cause(t, p, old, level)
        pending == t.regs[ChipAddr(p, REG_INTF)] # 0
    IN  IF pending \/ cause = 0
        THEN [t EXCEPT !.regs[ChipAddr(p, REG_GPIO)] = level]
        ELSE [t EXCEPT !.regs[ChipAddr(p, REG_GPIO)] = level,
                       !.regs[ChipAddr(p, REG_INTF)] = cause,
                       !.regs[ChipAddr(p, REG_INTCAP)] = level]

\* a device answers only at its own address
Outcome(t, address, fault) ==
    IF fault # "ok" THEN fault
    ELSE IF t.kind # "any" /\ address # t.address THEN "NACK"
    ELSE "ok"

I2cWrite(t, address, bytes, fault) ==
    LET result == Outcome(t, address, fault)
    IN  [result |-> result,
         state |-> IF result = "ok" THEN WriteEffect(t, bytes) ELSE t]

I2cWriteRead(t, address, bytes, buffer, fault, any) ==
    LET result == Outcome(t, address, fault)
    IN  [result |-> result,
         state |-> IF result = "ok" THEN ReadEffect(t, bytes[1]) ELSE t,
         buffer |-> IF result = "ok"
                    THEN [i \in 1 .. Len(buffer) |-> ReadValue(t, bytes[1], any)]
                    ELSE buffer]

----------------------------------------------------------------------------
(* The driver *)

\* no set_direction call has succeeded on the port yet
NotWritten == 0 - 1

NoEvent == [kind |-> "none", port |-> "A", changed |-> 0, fresh |-> FALSE]

\* new(): the driver after construction, owning transport t
new(t) ==
    /\ active_port = "A"
    /\ i2c = t
    /\ bus = <<>>
    /\ ret = Ok("Self")
    /\ call = [ctx |-> 0, op |-> "new", args |-> <<>>]
    /\ selected = [c \in Ctx |-> "none"]
    /\ last_sel = [ctx |-> 0, port |-> "A"]
    /\ written = [p \in Port |-> NotWritten]
    /\ event = NoEvent

\* mutant: the port B offset mistyped (0x01 for 0x10)
get_port_low_bit(port, register) ==
    IF port = "A" THEN register ELSE BitOr(1, register)

\* mutant: the active port ignored
get_port_ignores_port(port, register) ==
    register

get_port(port, register) ==
    IF port = "A" THEN register ELSE BitOr(PORT_B_BIT, register)

\* mutant: the register address and the value sent as two writes
set_thing_two_writes(register, data, fault) ==
    LET reg == BitOr(IF active_port = "A" THEN 0 ELSE PORT_B_BIT, register)
        w1 == I2cWrite(i2c, ADDRESS, <<reg>>, fault)
        w2 == I2cWrite(w1.state, ADDRESS, <<data>>, fault)
    IN  /\ i2c' = w2.state
        /\ bus' = <<[kind |-> "write", address |-> ADDRESS, bytes |-> <<reg>>,
                     read |-> <<>>, result |-> w1.result],
                    [kind |-> "write", address |-> ADDRESS, bytes |-> <<data>>,
                     read |-> <<>>, result |-> w2.result]>>
        /\ ret' = IF w2.result = "ok" THEN Ok(Unit) ELSE Err(w2.result)
        /\ UNCHANGED active_port

set_thing(register, data, fault) ==
    LET reg == get_port(active_port, register)
        bytes == <<reg, data>>
        w == I2cWrite(i2c, ADDRESS, bytes, fault)
    IN  /\ i2c' = w.state
        /\ bus' = <<[kind |-> "write", address |-> ADDRESS, bytes |-> bytes,
                     read |-> <<>>, result |-> w.result]>>
        /\ ret' = IF w.result = "ok" THEN Ok(Unit) ELSE Err(w.result)
        /\ UNCHANGED active_port

\* mutant: a failed read falls back to port A
get_thing_resets_port(register, fault, any) ==
    LET reg == BitOr(IF active_port = "A" THEN 0 ELSE PORT_B_BIT, register)
        wr == I2cWriteRead(i2c, ADDRESS, <<reg>>, <<0>>, fault, any)
    IN  /\ i2c' = wr.state
        /\ bus' = <<[kind |-> "write_read", address |-> ADDRESS, bytes |-> <<reg>>,
                     read |-> wr.buffer, result |-> wr.result]>>
        /\ ret' = IF wr.result = "ok" THEN Ok(wr.buffer[1]) ELSE Err(wr.result)
        /\ active_port' = IF wr.result = "ok" THEN active_port ELSE "A"

\* mutant: the transaction's result dropped, the buffer returned regardless
get_thing_ignores_error(register, fault, any) ==
    LET reg == BitOr(IF active_port = "A" THEN 0 ELSE PORT_B_BIT, register)
        wr == I2cWriteRead(i2c, ADDRESS, <<reg>>, <<0>>, fault, any)
    IN  /\ i2c' = wr.state
        /\ bus' = <<[kind |-> "write_read", address |-> ADDRESS, bytes |-> <<reg>>,
                     read |-> wr.buffer, result |-> wr.result]>>
        /\ ret' = Ok(wr.buffer[1])
        /\ UNCHANGED active_port

get_thing(register, fault, any) ==
    LET reg == get_port(active_port, register)
        data == <<0>>
        wr == I2cWriteRead(i2c, ADDRESS, <<reg>>, data, fault, any)
    IN  /\ i2c' = wr.state
        /\ bus' = <<[kind |-> "write_read", address |-> ADDRESS, bytes |-> <<reg>>,
                     read |-> wr.buffer, result |-> wr.result]>>
        /\ ret' = IF wr.result = "ok" THEN Ok(wr.buffer[1]) ELSE Err(wr.result)
        /\ UNCHANGED active_port

\* the caller's side of a get/set call by context c: what it called, and what
\* it knows afterwards about the chip behind a "memory" or "mcp23x17" transport
Called(c, op, args) ==
    /\ call' = [ctx |-> c, op |-> op, args |-> args]
    /\ UNCHANGED <<selected, last_sel>>
    /\ written' = IF i2c.kind = "memory" /\ op = "set_direction" /\ ret'.ok
                  THEN [written EXCEPT ![active_port] = args[1]]
                  ELSE written
    /\ event' = IF i2c.kind # "mcp23x17" \/ op = "who_interrupted" THEN event
                ELSE IF op \in {"data", "data_at_interrupt"} /\ ret'.ok
                THEN [kind |-> op, port |-> active_port, changed |-> 0,
                      fresh |-> FALSE]
                ELSE NoEvent

\* mutant: selecting a port also writes the chip configuration
select_port_writes_config(c, port) ==
    LET bytes == <<REG_CONFIG, 0>>
        w == I2cWrite(i2c, ADDRESS, bytes, "ok")
    IN  /\ active_port' = port
        /\ i2c' = w.state
        /\ bus' = <<[kind |-> "write", address |-> ADDRESS, bytes |-> bytes,
                     read |-> <<>>, result |-> w.result]>>
        /\ ret' = Ok(Unit)
        /\ call' = [ctx |-> c, op |-> "select_port", args |-> <<port>>]
        /\ selected' = [selected EXCEPT ![c] = port]
        /\ last_sel' = [ctx |-> c, port |-> port]
        /\ UNCHANGED <<written, event>>

\* mutant: only the first selection after construction takes effect
select_port_first_wins(c, port) ==
    /\ active_port' = IF last_sel.ctx = 0 THEN port ELSE active_port
    /\ bus' = <<>>
    /\ ret' = Ok(Unit)
    /\ UNCHANGED i2c
    /\ call' = [ctx |-> c, op |-> "select_port", args |-> <<port>>]
    /\ selected' = [selected EXCEPT ![c] = port]
    /\ last_sel' = [ctx |-> c, port |-> port]
    /\ UNCHANGED <<written, event>>

select_port(c, port) ==
    /\ active_port' = port
    /\ bus' = <<>>
    /\ ret' = Ok(Unit)
    /\ UNCHANGED i2c
    /\ call' = [ctx |-> c, op |-> "select_port", args |-> <<port>>]
    /\ selected' = [selected EXCEPT ![c] = port]
    /\ last_sel' = [ctx |-> c, port |-> port]
    /\ UNCHANGED <<written, event>>

set_direction(c, data, fault) ==
    set_thing(REG_IODIR, data, fault) /\ Called(c, "set_direction", <<data>>)

direction(c, fault, any) ==
    get_thing(REG_IODIR, fault, any) /\ Called(c, "direction", <<>>)

\* mutant: the flags written as given
set_config_unmasked(c, data, fault) ==
    set_thing(REG_CONFIG, data, fault) /\ Called(c, "set_config", <<data>>)

set_config(c, data, fault) ==
    LET masked == BitAnd(data, BitNot(Config_BANK))
    IN  set_thing(REG_CONFIG, masked, fault) /\ Called(c, "set_config", <<data>>)

config(c, fault, any) ==
    get_thing(REG_CONFIG, fault, any) /\ Called(c, "config", <<>>)

set_pullups(c, data, fault) ==
    set_thing(REG_GPPU, data, fault) /\ Called(c, "set_pullups", <<data>>)

pullups(c, fault, any) ==
    get_thing(REG_GPPU, fault, any) /\ Called(c, "pullups", <<>>)

who_interrupted(c, fault, any) ==
    get_thing(REG_INTF, fault, any) /\ Called(c, "who_interrupted", <<>>)

data_at_interrupt(c, fault, any) ==
    get_thing(REG_INTCAP, fault, any) /\ Called(c, "data_at_interrupt", <<>>)

set_int_compare(c, data, fault) ==
    set_thing(REG_DEFVAL, data, fault) /\ Called(c, "set_int_compare", <<data>>)

int_compare(c, fault, any) ==
    get_thing(REG_DEFVAL, fault, any) /\ Called(c, "int_compare", <<>>)

set_int_control(c, data, fault) ==
    set_thing(REG_INTCON, data, fault) /\ Called(c, "set_int_control", <<data>>)

int_control(c, fault, any) ==
    get_thing(REG_INTCON, fault, any) /\ Called(c, "int_control", <<>>)

set_interrupt(c, data, fault) ==
    set_thing(REG_GPINTEN, data, fault) /\ Called(c, "set_interrupt", <<data>>)

interrupt(c, fault, any) ==
    get_thing(REG_GPINTEN, fault, any) /\ Called(c, "interrupt", <<>>)

latches(c, fault, any) ==
    get_thing(REG_OLAT, fault, any) /\ Called(c, "latches", <<>>)

set_polarity(c, data, fault) ==
    set_thing(REG_IPOL, data, fault) /\ Called(c, "set_polarity", <<data>>)

polarity(c, fault, any) ==
    get_thing(REG_IPOL, fault, any) /\ Called(c, "polarity", <<>>)

set_data(c, data, fault) ==
    set_thing(REG_GPIO, data, fault) /\ Called(c, "set_data", <<data>>)

\* mutant: data() reads the output latch
data_reads_latches(c, fault, any) ==
    get_thing(REG_OLAT, fault, any) /\ Called(c, "data", <<>>)

\* mutant: data() reads the captured value
data_reads_intcap(c, fault, any) ==
    get_thing(REG_INTCAP, fault, any) /\ Called(c, "data", <<>>)

data(c, fault, any) ==
    get_thing(REG_GPIO, fault, any) /\ Called(c, "data", <<>>)

---------------------------------------------------------------------------------------------------------------------------------------------------
(* The pins of port p change to level (the chip's environment) *)

PinChange(p, level) ==
    /\ i2c.kind = "mcp23x17"
    /\ level # i2c.regs[ChipAddr(p, REG_GPIO)]
    /\ i2c' = PinEffect(i2c, p, level)
    /\ event' = [kind |-> "change", port |-> p,
                 changed |-> BitXor(i2c.regs[ChipAddr(p, REG_GPIO)], level),
                 fresh |-> i2c.regs[ChipAddr(p, REG_INTF)] = 0]
    /\ call' = [ctx |-> 0, op |-> "pin_change", args |-> <<p, level>>]
    /\ bus' = <<>>
    /\ UNCHANGED <<active_port, ret, selected, last_sel, written>>

----------------------------------------------------------------------------
(* One caller, any transport *)

AnyTransport == [kind |-> "any"]

Init == new(AnyTransport)

Setters ==
    \E d \in Bytes, f \in Faults :
        \/ set_direction(1, d, f)
        \/ set_pullups(1, d, f)
        \/ set_int_compare(1, d, f)
        \/ set_int_control(1, d, f)
        \/ set_interrupt(1, d, f)
        \/ set_polarity(1, d, f)
        \/ set_data(1, d, f)

SetConfig ==
    \/ \E d \in U8 : set_config(1, d, "ok")
    \/ \E d \in Bytes, f \in Errors : set_config(1, d, f)

Getters ==
    \E f \in Faults, a \in Bytes :
        \/ direction(1, f, a)
        \/ config(1, f, a)
        \/ pullups(1, f, a)
        \/ who_interrupted(1, f, a)
        \/ data_at_interrupt(1, f, a)
        \/ int_compare(1, f, a)
        \/ int_control(1, f, a)
        \/ interrupt(1, f, a)
        \/ latches(1, f, a)
        \/ polarity(1, f, a)
        \/ data(1, f, a)

SelectPort ==
    \E p \in Port : select_port(1, p)

Next ==
    \/ SelectPort
    \/ Setters
    \/ SetConfig
    \/ Getters

Spec == Init /\ [][Next]_vars

----------------------------------------------------------------------------
(* One caller, a transport that stores each written byte at its address *)

MemBytes == {0, 15, 255}

\* the faults injected in front of a chip
ChipFaults == {"ok", "NACK"}

\* the register file at power-on: direction registers 0xff, the others 0
PowerOn == [a \in 0 .. 31 |-> IF ChipReg(a) = REG_IODIR THEN 255 ELSE 0]

MemoryTransport == [kind |-> "memory", address |-> ADDRESS, regs |-> PowerOn]

InitMem == new(MemoryTransport)

NextMem ==
    \/ \E p \in Port : select_port(1, p)
    \/ \E d \in MemBytes, f \in ChipFaults : set_direction(1, d, f)
    \/ \E d \in MemBytes, f \in ChipFaults : set_data(1, d, f)
    \/ \E f \in ChipFaults : direction(1, f, 0)
    \/ \E f \in ChipFaults : data(1, f, 0)

SpecMem == InitMem /\ [][NextMem]_vars

----------------------------------------------------------------------------
(* One caller, the chip's interrupt latch behind the transport *)

IrqBytes == {0, 128}

ChipTransport == [kind |-> "mcp23x17", address |-> ADDRESS, regs |-> PowerOn]

InitIrq == new(ChipTransport)

NextIrq ==
    \/ \E p \in Port : select_port(1, p)
    \/ \E d \in IrqBytes, f \in ChipFaults : set_interrupt(1, d, f)
    \/ \E d \in IrqBytes, f \in ChipFaults : set_int_control(1, d, f)
    \/ \E f \in ChipFaults : who_interrupted(1, f, 0)
    \/ \E f \in ChipFaults : data(1, f, 0)
    \/ \E f \in ChipFaults : data_at_interrupt(1, f, 0)
    \/ \E p \in Port, l \in IrqBytes : PinChange(p, l)

SpecIrq == InitIrq /\ [][NextIrq]_vars

----------------------------------------------------------------------------
(* Several callers sharing the driver; calls never overlap *)

SharedBytes == {0, 255}

NextShared ==
    \/ \E c \in Ctx, p \in Port : select_port(c, p)
    \/ \E c \in Ctx, d \in SharedBytes, f \in Faults : set_data(c, d, f)
    \/ \E c \in Ctx, f \in Faults, a \in SharedBytes : data(c, f, a)

SpecShared == Init /\ [][NextShared]_vars

----------------------------------------------------------------------------
(* Properties *)

SetterOps == {"set_direction", "set_polarity", "set_interrupt", "set_int_compare",
              "set_int_control", "set_config", "set_pullups", "set_data"}

GetterOps == {"direction", "polarity", "interrupt", "int_compare", "int_control",
              "config", "pullups", "who_interrupted", "data_at_interrupt", "data",
              "latches"}

GetSetOps == SetterOps \cup GetterOps

\* the register the documented table assigns to each operation
TableOf(op) ==
    CASE op \in {"set_direction", "direction"} -> 0
      [] op \in {"set_polarity", "polarity"} -> 1
      [] op \in {"set_interrupt", "interrupt"} -> 2
      [] op \in {"set_int_compare", "int_compare"} -> 3
      [] op \in {"set_int_control", "int_control"} -> 4
      [] op \in {"set_config", "config"} -> 5
      [] op \in {"set_pullups", "pullups"} -> 6
      [] op = "who_interrupted" -> 7
      [] op = "data_at_interrupt" -> 8
      [] op \in {"set_data", "data"} -> 9
      [] op = "latches" -> 10

\* the bank a physical address lies in
BankOf(a) == IF a >= 16 THEN "B" ELSE "A"

BankBase(p) == IF p = "B" THEN 16 ELSE 0

\* C1: set_config(f) writes f with bit 7 cleared (f mod 128) to IOCON of the
\* selected bank, and no write to IOCON (0x05 or 0x15) carries bit 7.
C1_ConfigBankCleared ==
    /\ call.op = "set_config" =>
            /\ Len(bus) = 1
            /\ bus[1].kind = "write"
            /\ bus[1].bytes[1] = 5 + BankBase(active_port)
            /\ bus[1].bytes[2] = call.args[1] % 128
    /\ \A i \in 1 .. Len(bus) :
            (bus[i].kind = "write" /\ bus[i].bytes[1] \in {5, 21}) =>
                (Len(bus[i].bytes) = 2 /\ bus[i].bytes[2] < 128)

\* C1 witness: on bank B, set_config(0xFF) wrote [0x15, 0x7F]
C1_Witness ==
    /\ call.op = "set_config"
    /\ call.args = <<255>>
    /\ active_port = "B"
    /\ bus[1].bytes = <<21, 127>>

\* C2: for every register offset r in 0x00..0x0A the address computation gives
\* r on bank A and r + 0x10 on bank B (a difference of exactly 0x10), and the
\* address of every transaction is the computation's result for the active bank.
C2_AddressComputation ==
    /\ \A r \in 0 .. 10 :
            /\ get_port("A", r) = r
            /\ get_port("B", r) = r + 16
            /\ get_port("B", r) - get_port("A", r) = 16
    /\ call.op \in GetSetOps =>
            \E r \in 0 .. 10 :
                /\ bus[1].bytes[1] = get_port(active_port, r)
                /\ bus[1].bytes[1] = r + BankBase(active_port)

\* C2 witness: offset 0x0A on bank B was addressed as 0x1A
C2_Witness ==
    /\ call.op = "latches"
    /\ active_port = "B"
    /\ bus[1].bytes[1] = 26

\* C3: every get/set operation addresses the register the table assigns to
\* it, offset by the active bank; on bank B set_direction(0x00) writes
\* [0x10, 0x00] and set_data(0xFF) writes [0x19, 0xFF].
C3_RegisterTable ==
    /\ call.op \in GetSetOps =>
            /\ Len(bus) >= 1
            /\ bus[1].bytes[1] = TableOf(call.op) + BankBase(active_port)
    /\ (call.op = "set_direction" /\ call.args = <<0>> /\ active_port = "B") =>
            bus[1].bytes = <<16, 0>>
    /\ (call.op = "set_data" /\ call.args = <<255>> /\ active_port = "B") =>
            bus[1].bytes = <<25, 255>>

\* C3 witness: on bank B, set_data(0xFF) wrote [0x19, 0xFF]
C3_Witness ==
    /\ call.op = "set_data"
    /\ call.args = <<255>>
    /\ active_port = "B"
    /\ bus[1].bytes = <<25, 255>>

\* C4: a setter call issues exactly one transaction, a write of the two bytes
\* [address, value] to device 0x20; a getter call issues exactly one
\* transaction, a write-then-read to device 0x20 that writes [address] and
\* reads one byte, the value returned.
C4_OneTransaction ==
    /\ call.op \in SetterOps =>
            /\ Len(bus) = 1
            /\ bus[1].kind = "write"
            /\ bus[1].address = 32
            /\ Len(bus[1].bytes) = 2
            /\ bus[1].bytes[1] \in (0 .. 10) \cup (16 .. 26)
            /\ bus[1].bytes[2] = IF call.op = "set_config" THEN call.args[1] % 128
                                 ELSE call.args[1]
            /\ bus[1].read = <<>>
    /\ call.op \in GetterOps =>
            /\ Len(bus) = 1
            /\ bus[1].kind = "write_read"
            /\ bus[1].address = 32
            /\ Len(bus[1].bytes) = 1
            /\ bus[1].bytes[1] \in (0 .. 10) \cup (16 .. 26)
            /\ Len(bus[1].read) = 1
            /\ ret.ok => ret.val = bus[1].read[1]

\* C4 witness: data() returned the byte 0x0F its one transaction read
C4_Witness ==
    /\ call.op = "data"
    /\ ret.ok
    /\ ret.val = 15
    /\ Len(bus) = 1
    /\ bus[1].read = <<15>>

\* C5: the driver's bank, and the bank every get/set transaction is addressed
\* to, is the argument of the most recent select_port call (A before any);
\* no get or set, succeeding or failing, changes it.
C5_BankFollowsSelect ==
    /\ active_port = last_sel.port
    /\ call.op \in GetSetOps => BankOf(bus[1].bytes[1]) = last_sel.port

\* C5 witness: a get/set failed with bank B selected, and bank B stays selected
C5_Witness ==
    /\ call.op \in GetSetOps
    /\ ~ret.ok
    /\ last_sel.port = "B"
    /\ active_port = "B"

\* C6: a get/set operation returns an error exactly when its one transaction
\* failed, and the error is the transport's error value.
C6_ErrorPassThrough ==
    call.op \in GetSetOps =>
        /\ Len(bus) = 1
        /\ ret.ok <=> bus[1].result = "ok"
        /\ ~ret.ok => ret.val = bus[1].result

\* C6 witness: set_pullups returned the transport's TIMEOUT
C6_Witness ==
    /\ call.op = "set_pullups"
    /\ ~ret.ok
    /\ ret.val = "TIMEOUT"
    /\ bus[1].result = "TIMEOUT"

\* C7: construction and port selection issue no transaction and succeed;
\* construction selects bank A.
C7_NoIoOnNewOrSelect ==
    /\ call.op = "new" => (bus = <<>> /\ ret.ok /\ active_port = "A")
    /\ call.op = "select_port" =>
            (bus = <<>> /\ ret.ok /\ active_port = call.args[1])

\* C7 witness: select_port(B) completed
C7_Witness ==
    /\ call.op = "select_port"
    /\ call.args = <<"B">>
    /\ active_port = "B"
    /\ bus = <<>>

\* C8: on a register file, direction() returns the value last set with
\* set_direction on the same bank, whatever was set on the other bank.
C8_DirectionRoundTrip ==
    (call.op = "direction" /\ ret.ok /\ written[active_port] # NotWritten) =>
        ret.val = written[active_port]

\* C8 witness: 0x0F set on bank A, 0xFF on bank B, direction() on A returns 0x0F
C8_Witness ==
    /\ call.op = "direction"
    /\ ret.ok
    /\ active_port = "A"
    /\ written["A"] = 15
    /\ written["B"] = 255
    /\ ret.val = 15

\* C9: after a pin change with no interrupt pending and change-mode control,
\* who_interrupted() on that bank returns the enabled pins that changed; a
\* data() read resets that bank's interrupt flags, and who_interrupted()
\* returns 0x00 from then until the next pin change.
C9_InterruptLatch ==
    /\ (/\ call.op = "who_interrupted"
        /\ ret.ok
        /\ event.kind = "change"
        /\ event.port = active_port
        /\ event.fresh
        /\ i2c.regs[4 + BankBase(active_port)] = 0) =>
            ret.val = BitAnd(i2c.regs[2 + BankBase(active_port)], event.changed)
    /\ (call.op = "data" /\ ret.ok) => i2c.regs[7 + BankBase(active_port)] = 0
    /\ (/\ call.op = "who_interrupted"
        /\ ret.ok
        /\ event.kind = "data"
        /\ event.port = active_port) =>
            ret.val = 0

\* C9 witness: bit 7 enabled on bank A, the pin changed, who_interrupted() = 0x80
C9_Witness ==
    /\ call.op = "who_interrupted"
    /\ ret.ok
    /\ active_port = "A"
    /\ event.kind = "change"
    /\ event.port = "A"
    /\ event.changed = 128
    /\ i2c.regs[2] = 128
    /\ i2c.regs[4] = 0
    /\ ret.val = 128

\* C10 (as claimed): a context's get/set transaction is addressed to the bank
\* that context itself most recently selected.
C10_OwnBank ==
    (call.op \in GetSetOps /\ selected[call.ctx] # "none") =>
        BankOf(bus[1].bytes[1]) = selected[call.ctx]

\* C10 (amended): a get/set transaction is addressed to the bank most recently
\* selected on the shared driver by any context; it is the issuing context's
\* own selection when that context made the most recent select_port call.
C10_LastSelectedBank ==
    call.op \in GetSetOps =>
        /\ BankOf(bus[1].bytes[1]) = last_sel.port
        /\ last_sel.ctx = call.ctx => BankOf(bus[1].bytes[1]) = selected[call.ctx]

\* C10 witness: a context that selected A had its transaction addressed to
\* bank B, which another context selected after it
C10_Witness ==
    /\ call.op \in GetSetOps
    /\ selected[call.ctx] = "A"
    /\ last_sel.ctx # call.ctx
    /\ last_sel.port = "B"
    /\ BankOf(bus[1].bytes[1]) = "B"

====
